---- MODULE Spec2Model ----
(***************************************************************************)
(* Model of identify_market_phases (src/app.py, lines 325-379): the       *)
(* bull/bear market-phase segmentation of a price series.                  *)
(*                                                                         *)
(* The series is a function from the positions 0..n-1 to prices, as       *)
(* series.iloc does; index holds the time stamps (series.index).  The     *)
(* threshold is the fraction threshold[1] / threshold[2]; a comparison    *)
(* p >= trough * (1 + threshold) is made on integers after multiplying    *)
(* both sides by threshold[2] > 0.  For the integer prices and the        *)
(* thresholds drawn here the float64 comparisons of the source give the   *)
(* same answers.  A percentage move num / den is kept as the pair         *)
(* <<num, den>>, the division left undone.                                 *)
(***************************************************************************)
EXTENDS Integers, Sequences, FiniteSets, TLC

VARIABLES series, index, threshold,
          pc, outcome, i,
          in_bull, in_bear, start_idx, peak, trough,
          bull_markets, bear_markets

inputs == <<series, index, threshold>>
vars == <<series, index, threshold, pc, outcome, i,
          in_bull, in_bear, start_idx, peak, trough, bull_markets, bear_markets>>

(* Bounds and input domains *)
MaxLen == 5

Prices == {50, 60, 80, 95, 100, 121}
Thresholds == {<<1, 5>>, <<1, 4>>, <<1, 2>>}
TimeSteps == {1, 2}

PricesAny == {-100, 0, 100, 121}
ThresholdsAny == {<<-1, 4>>, <<0, 1>>, <<1, 5>>}
TimeStepsAny == {-1, 0, 1}

(* len(series) *)
SeriesLen == Cardinality(DOMAIN series)

(* The tuples appended to bull_markets and bear_markets, and their fields *)
BullRecord(s_idx, e_idx, tr, pk) ==
    <<s_idx, e_idx, index[s_idx], index[e_idx], tr, pk, <<pk - tr, tr>>>>

(* Variant: the move of a bear market taken with the sign of a bull market *)
BearRecordUnsigned(s_idx, e_idx, pk, tr) ==
    <<s_idx, e_idx, index[s_idx], index[e_idx], pk, tr, <<pk - tr, pk>>>>

BearRecord(s_idx, e_idx, pk, tr) ==
    <<s_idx, e_idx, index[s_idx], index[e_idx], pk, tr, <<tr - pk, pk>>>>

StartIndex(r) == r[1]
EndIndex(r) == r[2]
StartDate(r) == r[3]
EndDate(r) == r[4]
RefBefore(r) == r[5]
RefAfter(r) == r[6]
PercentMove(r) == r[7]

(* The scan's local variables as one record *)
Locals ==
    [in_bull |-> in_bull, in_bear |-> in_bear, start_idx |-> start_idx,
     peak |-> peak, trough |-> trough,
     bull_markets |-> bull_markets, bear_markets |-> bear_markets]

SetLocals(s) ==
    /\ in_bull' = s.in_bull
    /\ in_bear' = s.in_bear
    /\ start_idx' = s.start_idx
    /\ peak' = s.peak
    /\ trough' = s.trough
    /\ bull_markets' = s.bull_markets
    /\ bear_markets' = s.bear_markets

(* Variant: a strict comparison in the bull check *)
BullCheckStrict(s, current_price) ==
    /\ ~s.in_bull
    /\ current_price * threshold[2] > s.trough * (threshold[2] + threshold[1])

(* line 340: not in_bull and current_price >= trough * (1 + threshold) *)
BullCheck(s, current_price) ==
    /\ ~s.in_bull
    /\ current_price * threshold[2] >= s.trough * (threshold[2] + threshold[1])

(* line 353: not in_bear and current_price <= peak * (1 - threshold) *)
BearCheck(s, current_price) ==
    /\ ~s.in_bear
    /\ current_price * threshold[2] <= s.peak * (threshold[2] - threshold[1])

(* Variant: in_bear is not cleared when the bear market is closed *)
EnterBullKeepInBear(s, k, current_price) ==
    [s EXCEPT
       !.bear_markets = IF s.in_bear
                          THEN Append(s.bear_markets,
                                      BearRecord(s.start_idx, k - 1, s.peak, s.trough))
                          ELSE s.bear_markets,
       !.in_bull = TRUE,
       !.start_idx = k,
       !.trough = current_price]

(* Variant: the trough is not moved to the price that starts the bull market *)
EnterBullKeepTrough(s, k, current_price) ==
    [s EXCEPT
       !.bear_markets = IF s.in_bear
                          THEN Append(s.bear_markets,
                                      BearRecord(s.start_idx, k - 1, s.peak, s.trough))
                          ELSE s.bear_markets,
       !.in_bear = FALSE,
       !.in_bull = TRUE,
       !.start_idx = k]

(* lines 341-350: close an open bear market, start a bull market at k *)
EnterBull(s, k, current_price) ==
    [s EXCEPT
       !.bear_markets = IF s.in_bear
                          THEN Append(s.bear_markets,
                                      BearRecord(s.start_idx, k - 1, s.peak, s.trough))
                          ELSE s.bear_markets,
       !.in_bear = FALSE,
       !.in_bull = TRUE,
       !.start_idx = k,
       !.trough = current_price]

(* Variant: the closed bull market ends at k instead of k - 1 *)
EnterBearEndAtK(s, k, current_price) ==
    [s EXCEPT
       !.bull_markets = IF s.in_bull
                          THEN Append(s.bull_markets,
                                      BullRecord(s.start_idx, k, s.trough, s.peak))
                          ELSE s.bull_markets,
       !.in_bull = FALSE,
       !.in_bear = TRUE,
       !.start_idx = k,
       !.peak = current_price]

(* lines 354-363: close an open bull market, start a bear market at k *)
EnterBear(s, k, current_price) ==
    [s EXCEPT
       !.bull_markets = IF s.in_bull
                          THEN Append(s.bull_markets,
                                      BullRecord(s.start_idx, k - 1, s.trough, s.peak))
                          ELSE s.bull_markets,
       !.in_bull = FALSE,
       !.in_bear = TRUE,
       !.start_idx = k,
       !.peak = current_price]

(* Variant: the bear check is an if of its own, not the elif of the bull check *)
TransitionIfIf(s, k, current_price) ==
    LET s1 == IF BullCheck(s, current_price) THEN EnterBull(s, k, current_price) ELSE s
    IN IF BearCheck(s1, current_price) THEN EnterBear(s1, k, current_price) ELSE s1

(* lines 340-363: the if / elif of one iteration *)
Transition(s, k, current_price) ==
    IF BullCheck(s, current_price) THEN EnterBull(s, k, current_price)
    ELSE IF BearCheck(s, current_price) THEN EnterBear(s, k, current_price)
    ELSE s

(* lines 366-369: update peak and trough *)
UpdateExtremes(s, current_price) ==
    IF s.in_bull /\ current_price > s.peak THEN [s EXCEPT !.peak = current_price]
    ELSE IF s.in_bear /\ current_price < s.trough THEN [s EXCEPT !.trough = current_price]
    ELSE s

(* Variant: the last phase is a bear market whenever it is not a bull market *)
FinalizeElse(s, n) ==
    IF s.in_bull
      THEN [s EXCEPT !.bull_markets =
                Append(s.bull_markets, BullRecord(s.start_idx, n - 1, s.trough, s.peak))]
      ELSE [s EXCEPT !.bear_markets =
                Append(s.bear_markets, BearRecord(s.start_idx, n - 1, s.peak, s.trough))]

(* Variant: an open bear market is not closed at the end *)
FinalizeBullOnly(s, n) ==
    IF s.in_bull
      THEN [s EXCEPT !.bull_markets =
                Append(s.bull_markets, BullRecord(s.start_idx, n - 1, s.trough, s.peak))]
      ELSE s

(* lines 372-377: handle the last phase *)
Finalize(s, n) ==
    IF s.in_bull
      THEN [s EXCEPT !.bull_markets =
                Append(s.bull_markets, BullRecord(s.start_idx, n - 1, s.trough, s.peak))]
    ELSE IF s.in_bear
      THEN [s EXCEPT !.bear_markets =
                Append(s.bear_markets, BearRecord(s.start_idx, n - 1, s.peak, s.trough))]
    ELSE s

(* The call: the arguments are bound, no local is set yet *)
Entry ==
    /\ pc = "start"
    /\ outcome = "running"
    /\ i = 0
    /\ in_bull = FALSE
    /\ in_bear = FALSE
    /\ start_idx = 0
    /\ peak = 0
    /\ trough = 0
    /\ bull_markets = <<>>
    /\ bear_markets = <<>>

(* Valid input: 1..MaxLen samples, positive prices, increasing time stamps,
   threshold in (0,1) *)
Init ==
    /\ \E n \in 1..MaxLen :
         /\ series \in [0..(n - 1) -> Prices]
         /\ \E step \in TimeSteps : index = [k \in 0..(n - 1) |-> 1 + k * step]
    /\ threshold \in Thresholds
    /\ Entry

(* Any input, the invalid ones included *)
InitAny ==
    /\ \E n \in 0..MaxLen :
         /\ series \in [0..(n - 1) -> PricesAny]
         /\ \E step \in TimeStepsAny : index = [k \in 0..(n - 1) |-> 1 + k * step]
    /\ threshold \in ThresholdsAny
    /\ Entry

(* lines 326-334: the initialisation; series.iloc[0] raises IndexError on an
   empty series *)
Start ==
    /\ pc = "start"
    /\ IF SeriesLen = 0
         THEN /\ pc' = "done"
              /\ outcome' = "IndexError"
              /\ UNCHANGED <<i, peak, trough>>
         ELSE /\ pc' = "loop"
              /\ i' = 1
              /\ peak' = series[0]
              /\ trough' = series[0]
              /\ UNCHANGED outcome
    /\ UNCHANGED <<in_bull, in_bear, start_idx, bull_markets, bear_markets>>
    /\ UNCHANGED inputs

(* lines 336-369: one iteration of the loop, for sample i *)
Step ==
    /\ pc = "loop"
    /\ i < SeriesLen
    /\ LET current_price == series[i]
       IN SetLocals(UpdateExtremes(Transition(Locals, i, current_price), current_price))
    /\ i' = i + 1
    /\ UNCHANGED <<pc, outcome>>
    /\ UNCHANGED inputs

(* lines 371-379: the last phase and the return *)
Finish ==
    /\ pc = "loop"
    /\ i >= SeriesLen
    /\ SetLocals(Finalize(Locals, SeriesLen))
    /\ pc' = "done"
    /\ outcome' = "returned"
    /\ UNCHANGED i
    /\ UNCHANGED inputs

Next == Start \/ Step \/ Finish

Spec == Init /\ [][Next]_vars

SpecAny == InitAny /\ [][Next]_vars


(***************************************************************************)
(* Vocabulary of the properties                                            *)
(***************************************************************************)
Mode == IF in_bull THEN "InBull" ELSE IF in_bear THEN "InBear" ELSE "None"

BullSet == {bull_markets[k] : k \in 1..Len(bull_markets)}
BearSet == {bear_markets[k] : k \in 1..Len(bear_markets)}
Emitted == BullSet \cup BearSet

Covers(r, k) == StartIndex(r) <= k /\ k <= EndIndex(r)
Disjoint(a, b) == EndIndex(a) < StartIndex(b) \/ EndIndex(b) < StartIndex(a)

MaxOf(S) == CHOOSE x \in S : \A y \in S : y <= x
MinOf(S) == CHOOSE x \in S : \A y \in S : x <= y

(* p >= q * (1 + threshold) and p <= q * (1 - threshold) *)
UpBy(p, q) == p * threshold[2] >= q * (threshold[2] + threshold[1])
DownBy(p, q) == p * threshold[2] <= q * (threshold[2] - threshold[1])

(* The samples that move by the threshold away from the first sample; the
   least of them is the first regime trigger *)
Triggers == {k \in 1..(SeriesLen - 1) : UpBy(series[k], series[0]) \/ DownBy(series[k], series[0])}
FirstTrigger == MinOf(Triggers)

(* C1: the regimes of the two lists, merged by start_index, alternate in
   kind; the scan is in at most one mode, changes mode only None->InBull,
   None->InBear, InBull->InBear, InBear->InBull, and a change out of InBull
   or InBear appends exactly one regime to the list of the mode left. *)
C1_Alternate ==
    /\ ~(in_bull /\ in_bear)
    /\ \A j, k \in 1..Len(bull_markets) :
         j < k => /\ StartIndex(bull_markets[j]) < StartIndex(bull_markets[k])
                  /\ \E c \in BearSet :
                       /\ StartIndex(bull_markets[j]) < StartIndex(c)
                       /\ StartIndex(c) < StartIndex(bull_markets[k])
    /\ \A j, k \in 1..Len(bear_markets) :
         j < k => /\ StartIndex(bear_markets[j]) < StartIndex(bear_markets[k])
                  /\ \E c \in BullSet :
                       /\ StartIndex(bear_markets[j]) < StartIndex(c)
                       /\ StartIndex(c) < StartIndex(bear_markets[k])
    /\ \A a \in BullSet, c \in BearSet : StartIndex(a) # StartIndex(c)

C1_ModeChange ==
    /\ Mode' # Mode =>
         <<Mode, Mode'>> \in {<<"None", "InBull">>, <<"None", "InBear">>,
                              <<"InBull", "InBear">>, <<"InBear", "InBull">>}
    /\ (Mode = "InBull" /\ Mode' # "InBull") =>
         /\ Len(bull_markets') = Len(bull_markets) + 1
         /\ SubSeq(bull_markets', 1, Len(bull_markets)) = bull_markets
         /\ bear_markets' = bear_markets
    /\ (Mode = "InBear" /\ Mode' # "InBear") =>
         /\ Len(bear_markets') = Len(bear_markets) + 1
         /\ SubSeq(bear_markets', 1, Len(bear_markets)) = bear_markets
         /\ bull_markets' = bull_markets

C1_StrictAlternation == [] C1_Alternate /\ [][C1_ModeChange]_vars

C1_Witness ==
    /\ pc = "done"
    /\ Len(bull_markets) >= 2
    /\ Len(bear_markets) >= 1

(* C2: the index ranges of any two distinct regimes are disjoint, each list
   is in strictly increasing start_index order, and no regime reaches below
   the first trigger. *)
C2_AtMostOneRegime ==
    /\ \A j, k \in 1..Len(bull_markets) :
         j < k => /\ Disjoint(bull_markets[j], bull_markets[k])
                  /\ StartIndex(bull_markets[j]) < StartIndex(bull_markets[k])
    /\ \A j, k \in 1..Len(bear_markets) :
         j < k => /\ Disjoint(bear_markets[j], bear_markets[k])
                  /\ StartIndex(bear_markets[j]) < StartIndex(bear_markets[k])
    /\ \A j \in 1..Len(bull_markets), k \in 1..Len(bear_markets) :
         Disjoint(bull_markets[j], bear_markets[k])
    /\ Emitted # {} =>
         /\ Triggers # {}
         /\ \A r \in Emitted : \A k \in 0..(FirstTrigger - 1) : ~Covers(r, k)

C2_Witness ==
    /\ pc = "done"
    /\ Len(bear_markets) >= 2
    /\ Len(bull_markets) >= 1
    /\ FirstTrigger >= 2


(* C3: an invalid input (empty series, threshold <= 0, a non-increasing
   pair of time stamps, a non-positive price) is rejected before the scan:
   the call ends in an error and no regime is ever emitted. *)
InvalidInput ==
    \/ SeriesLen = 0
    \/ threshold[1] <= 0
    \/ \E k \in 1..(SeriesLen - 1) : index[k] <= index[k - 1]
    \/ \E k \in 0..(SeriesLen - 1) : series[k] <= 0

C3_RejectsInvalidInput ==
    InvalidInput =>
        /\ bull_markets = <<>>
        /\ bear_markets = <<>>
        /\ pc = "done" => outcome # "returned"

(* C4: segment([100, 121, 121], 0.2) returns no Bear regime and one Bull
   regime.  As claimed: the regime spans 0..2 with percent_move about 0.21.
   As the scan computes it: the regime opens on the trigger sample, spans
   1..2, its trough and peak are both 121 and its percent_move is 0. *)
C4_Input ==
    /\ SeriesLen = 3
    /\ series[0] = 100 /\ series[1] = 121 /\ series[2] = 121
    /\ threshold = <<1, 5>>

C4_BullFromIndexZero ==
    (C4_Input /\ pc = "done") =>
        /\ bear_markets = <<>>
        /\ Len(bull_markets) = 1
        /\ StartIndex(bull_markets[1]) = 0
        /\ EndIndex(bull_markets[1]) = 2
        /\ LET m == PercentMove(bull_markets[1])
           IN /\ 100 * m[1] >= 20 * m[2]
              /\ 100 * m[1] <= 22 * m[2]

C4_BullFromTrigger ==
    (C4_Input /\ pc = "done") =>
        /\ bear_markets = <<>>
        /\ Len(bull_markets) = 1
        /\ StartIndex(bull_markets[1]) = 1
        /\ EndIndex(bull_markets[1]) = 2
        /\ RefBefore(bull_markets[1]) = 121
        /\ RefAfter(bull_markets[1]) = 121
        /\ PercentMove(bull_markets[1]) = <<0, 121>>

C4_Witness ==
    /\ C4_Input
    /\ pc = "done"
    /\ outcome = "returned"
    /\ Len(bull_markets) = 1

(* C5: every Bull regime carries trough then peak, peak >= trough, and
   percent_move = (peak - trough) / trough >= 0; every Bear regime carries
   peak then trough, trough <= peak, and percent_move = (trough - peak) / peak
   <= 0; the prices are those of the scan when the regime is emitted. *)
C5_Moves ==
    /\ \A r \in BullSet :
         /\ PercentMove(r) = <<RefAfter(r) - RefBefore(r), RefBefore(r)>>
         /\ RefAfter(r) >= RefBefore(r)
         /\ PercentMove(r)[1] >= 0 /\ PercentMove(r)[2] > 0
    /\ \A r \in BearSet :
         /\ PercentMove(r) = <<RefAfter(r) - RefBefore(r), RefBefore(r)>>
         /\ RefAfter(r) <= RefBefore(r)
         /\ PercentMove(r)[1] <= 0 /\ PercentMove(r)[2] > 0

C5_Emission ==
    /\ Len(bull_markets') > Len(bull_markets) =>
         LET r == bull_markets'[Len(bull_markets')]
         IN RefBefore(r) = trough /\ RefAfter(r) = peak
    /\ Len(bear_markets') > Len(bear_markets) =>
         LET r == bear_markets'[Len(bear_markets')]
         IN RefBefore(r) = peak /\ RefAfter(r) = trough

C5_PercentMove == [] C5_Moves /\ [][C5_Emission]_vars

C5_Witness ==
    /\ pc = "done"
    /\ \E r \in BullSet : RefAfter(r) > RefBefore(r) /\ EndIndex(r) < SeriesLen - 1
    /\ \E r \in BearSet : RefAfter(r) < RefBefore(r) /\ EndIndex(r) = SeriesLen - 1

(* C6: a non-decreasing series with a jump of at least the threshold between
   two consecutive samples gives exactly one Bull regime and no Bear regime;
   a non-increasing series with such a drop gives exactly one Bear regime and
   no Bull regime. *)
NonDecreasing == \A k \in 1..(SeriesLen - 1) : series[k] >= series[k - 1]
NonIncreasing == \A k \in 1..(SeriesLen - 1) : series[k] <= series[k - 1]
HasJump == \E k \in 1..(SeriesLen - 1) : UpBy(series[k], series[k - 1])
HasDrop == \E k \in 1..(SeriesLen - 1) : DownBy(series[k], series[k - 1])

C6_Monotonic ==
    pc = "done" =>
        /\ (NonDecreasing /\ HasJump) => Len(bull_markets) = 1 /\ bear_markets = <<>>
        /\ (NonIncreasing /\ HasDrop) => Len(bear_markets) = 1 /\ bull_markets = <<>>

C6_Witness ==
    /\ pc = "done"
    /\ SeriesLen >= 4
    /\ NonDecreasing /\ HasJump
    /\ ~UpBy(series[1], series[0])
    /\ series[SeriesLen - 1] > series[SeriesLen - 2]
    /\ Len(bull_markets) = 1

(* C7: when no sample is a threshold move away from any earlier sample, and
   when the series has fewer than 2 samples, the call returns two empty
   lists, the mode still None. *)
NeverMoves ==
    \A j, k \in 0..(SeriesLen - 1) :
        j < k => ~UpBy(series[k], series[j]) /\ ~DownBy(series[k], series[j])

C7_Degenerate ==
    (NeverMoves \/ SeriesLen < 2) =>
        /\ Mode = "None"
        /\ bull_markets = <<>>
        /\ bear_markets = <<>>
        /\ pc = "done" => outcome = "returned"

C7_Witness ==
    /\ pc = "done"
    /\ outcome = "returned"
    /\ SeriesLen >= 3
    /\ NeverMoves
    /\ \E k \in 1..(SeriesLen - 1) : series[k] # series[0]
    /\ bull_markets = <<>> /\ bear_markets = <<>>


(* C8: every emitted regime has end_index >= start_index and end_time >=
   start_time: an open regime began at a sample already scanned, so a
   transition at sample i closes it at i - 1 >= its start, and finalization
   closes it at n - 1 >= its start. *)
C8_EndNotBeforeStart ==
    /\ \A r \in Emitted :
         /\ EndIndex(r) >= StartIndex(r)
         /\ EndDate(r) >= StartDate(r)
    /\ (pc = "loop" /\ Mode # "None") => start_idx < i /\ start_idx <= SeriesLen - 1

C8_Witness ==
    /\ pc = "done"
    /\ \E r \in BullSet : EndIndex(r) > StartIndex(r) /\ EndDate(r) > StartDate(r)
    /\ \E r \in BearSet : EndIndex(r) = StartIndex(r) /\ EndIndex(r) < SeriesLen - 1

(* C9: a mode switch at sample i emits the open regime, from its own start
   to i - 1, and opens the new one at i; the end of the scan closes the open
   regime at n - 1; so the emitted regimes cover every index from the first
   trigger to n - 1. *)
C9_Switch ==
    /\ (Mode = "InBull" /\ Mode' = "InBear") =>
         /\ Len(bull_markets') = Len(bull_markets) + 1
         /\ StartIndex(bull_markets'[Len(bull_markets')]) = start_idx
         /\ EndIndex(bull_markets'[Len(bull_markets')]) = i - 1
         /\ start_idx' = i
    /\ (Mode = "InBear" /\ Mode' = "InBull") =>
         /\ Len(bear_markets') = Len(bear_markets) + 1
         /\ StartIndex(bear_markets'[Len(bear_markets')]) = start_idx
         /\ EndIndex(bear_markets'[Len(bear_markets')]) = i - 1
         /\ start_idx' = i
    /\ (pc = "loop" /\ pc' = "done" /\ Mode # "None") =>
         \E r \in (IF Mode = "InBull" THEN BullSet' ELSE BearSet') :
             StartIndex(r) = start_idx /\ EndIndex(r) = SeriesLen - 1

C9_Tiling ==
    (pc = "done" /\ Emitted # {}) =>
        /\ Triggers # {}
        /\ \A k \in 0..(SeriesLen - 1) :
             (k >= FirstTrigger) <=> (\E r \in Emitted : Covers(r, k))

C9_Contiguity == [] C9_Tiling /\ [][C9_Switch]_vars

C9_Witness ==
    /\ pc = "done"
    /\ SeriesLen = 3
    /\ series[0] = 100 /\ series[1] = 121 /\ series[2] = 95
    /\ threshold = <<1, 5>>
    /\ Len(bull_markets) = 1 /\ Len(bear_markets) = 1
    /\ StartIndex(bull_markets[1]) = 1 /\ EndIndex(bull_markets[1]) = 1
    /\ StartIndex(bear_markets[1]) = 2 /\ EndIndex(bear_markets[1]) = 2

(* C10: while a Bull regime is open, peak is the maximum price of the samples
   from start_idx to the current one; while a Bear regime is open, trough is
   their minimum; so an emitted Bull regime carries the maximum, and an
   emitted Bear regime the minimum, of the prices inside it. *)
PricesIn(a, b) == {series[k] : k \in a..b}

C10_RunningExtreme ==
    /\ (pc = "loop" /\ in_bull) => peak = MaxOf(PricesIn(start_idx, i - 1))
    /\ (pc = "loop" /\ in_bear) => trough = MinOf(PricesIn(start_idx, i - 1))
    /\ \A r \in BullSet : RefAfter(r) = MaxOf(PricesIn(StartIndex(r), EndIndex(r)))
    /\ \A r \in BearSet : RefAfter(r) = MinOf(PricesIn(StartIndex(r), EndIndex(r)))


(* C11: a switch InBear->InBull at sample i happens only at a price of at
   least (1 + threshold) times the minimum price of the Bear regime being
   closed, and a switch InBull->InBear only at a price of at most
   (1 - threshold) times the maximum price of the Bull regime being closed;
   so a Bull entry is never below, and a Bear entry never above, the price
   of the sample before it. *)
C11_Switch ==
    /\ (Mode = "InBear" /\ Mode' = "InBull") =>
         /\ UpBy(series[i], MinOf(PricesIn(start_idx, i - 1)))
         /\ series[i] >= series[i - 1]
    /\ (Mode = "InBull" /\ Mode' = "InBear") =>
         /\ DownBy(series[i], MaxOf(PricesIn(start_idx, i - 1)))
         /\ series[i] <= series[i - 1]

C11_ConfirmedByThresholdMove == [][C11_Switch]_vars

====
